---- MODULE Spec2Model ----
(***************************************************************************)
(* Baseline classifiers and repeated-holdout evaluators of                 *)
(* HW1/code/src/titanic.py.                                                *)
(*                                                                         *)
(* Numbers.  Labels are the floats 0.0, 1.0 (and 2.0 for "any other        *)
(* label"), written 0, 1, 2.  A float that is a ratio of small counts is   *)
(* kept as the reduced fraction <<num, den>>; the float NaN is <<0, 0>>.   *)
(* The one place where binary rounding decides a discrete outcome, the     *)
(* products len * (partial_amt / 10.0) and test_size * n, is computed in   *)
(* IEEE-754 double precision on 53-bit significands (FloatDivInt,          *)
(* FloatMulInt).                                                           *)
(***************************************************************************)
EXTENDS Integers, Sequences, FiniteSets, TLC

\* ------------------------------------------------------------------ bounds
MaxLen == 3
MaxRows == 2
MaxSeed == 0
MaxTrials == 2
LargeRows == 100

\* ------------------------------------------------------- program constants
DefaultSeed == 1234
RngMod == 8

None == <<>>
Some(v) == <<v>>
NoExc == "None"
Labels == {0, 1, 2}
FeatureValues == {0, 1}
MVInstances == {"mv"}
RCInstances == {"rc1", "rc2"}
Instances == MVInstances \cup RCInstances
Seeds == (0 .. MaxSeed) \cup {DefaultSeed}

VARIABLES
  prediction_,     \* MajorityVoteClassifier.prediction_ of each instance
  probabilities_,  \* RandomClassifier.probabilities_ of each instance
  rng,             \* state of numpy's global generator np.random
  dictOrder,       \* iteration order of the interpreter's dict
  lastCall,        \* the most recent fit/predict call and its outcome
  lastY,           \* history: labels of the last fit that returned, per instance
  fitCalled,       \* history: whether fit was ever called on the instance
  ref,             \* history: a predict call kept for later comparison
  constructed,     \* the classifier instances that were constructed
  data,            \* the dataset (X, y) handed to the evaluators
  args,            \* the evaluators' other arguments: clf, ntrials, test_size, partial_amt
  ev,              \* the running evaluator call: its position and locals
  ret              \* what the last call of each evaluator ended with

vars == <<prediction_, probabilities_, rng, dictOrder, lastCall, lastY,
          fitCalled, ref, constructed, data, args, ev, ret>>

evalVars == <<data, args, ev, ret>>

\* --------------------------------------------------------------- sequences
SeqsUpTo(S, n) == UNION {[1 .. k -> S] : k \in 0 .. n}

Prefix(s, k) == [j \in 1 .. k |-> s[j]]

Repeat(v, n) == [j \in 1 .. n |-> v]

\* -------------------------------------------------------------- fractions
RECURSIVE Gcd(_, _)
Gcd(a, b) == IF b = 0 THEN a ELSE Gcd(b, a % b)

\* float(a) / float(b) for counts a, b with b > 0
Ratio(a, b) == <<a \div Gcd(a, b), b \div Gcd(a, b)>>

\* ------------------------------------------------- IEEE-754 double floats
\* A positive double is [m |-> its 53 significand bits, first bit 1, e |-> the
\* exponent of the last bit]: the value is m * 2^e.  Zero has no bits.
Precision == 53

FloatZero == [m |-> <<>>, e |-> 0]

\* 2^k
RECURSIVE Pow2(_)
Pow2(k) == IF k = 0 THEN 1 ELSE 2 * Pow2(k - 1)

\* the number of binary digits of a natural number
RECURSIVE BitLen(_)
BitLen(n) == IF n = 0 THEN 0 ELSE 1 + BitLen(n \div 2)

\* the binary digits of a natural number, most significant first
BitsOf(n) == [j \in 1 .. BitLen(n) |-> (n \div Pow2(BitLen(n) - j)) % 2]

\* the natural number with the first k of these binary digits
RECURSIVE ValueUpTo(_, _)
ValueUpTo(b, k) == IF k = 0 THEN 0 ELSE 2 * ValueUpTo(b, k - 1) + b[k]

\* b + 1 on binary digits
IncBits(b) ==
  IF \A j \in 1 .. Len(b) : b[j] = 1
    THEN [j \in 1 .. Len(b) + 1 |-> IF j = 1 THEN 1 ELSE 0]
    ELSE LET last == CHOOSE j \in 1 .. Len(b) :
                       b[j] = 0 /\ \A i \in j + 1 .. Len(b) : b[i] = 1
         IN [j \in 1 .. Len(b) |-> IF j < last THEN b[j] ELSE IF j = last THEN 1 ELSE 0]

\* round-to-nearest-even of the digits b (first digit 1, at least Precision of
\* them, last digit worth 2^e) followed by a non-zero tail iff sticky
RoundBits(b, e, sticky) ==
  LET extra == Len(b) - Precision
      kept  == SubSeq(b, 1, Precision)
      guard == IF extra > 0 THEN b[Precision + 1] ELSE 0
      rest  == sticky \/ \E j \in Precision + 2 .. Len(b) : b[j] = 1
      up    == guard = 1 /\ (rest \/ kept[Precision] = 1)
      inc   == IncBits(kept)
  IN IF ~up THEN [m |-> kept, e |-> e + extra]
     ELSE IF Len(inc) > Precision THEN [m |-> SubSeq(inc, 1, Precision), e |-> e + extra + 1]
     ELSE [m |-> inc, e |-> e + extra]

\* (r * 2^k) mod b: the remainder left after k binary digits of r / b
RECURSIVE FracRem(_, _, _)
FracRem(r, b, k) == IF k = 0 THEN r % b ELSE (2 * FracRem(r, b, k - 1)) % b

\* the first k binary digits of r / b after the point, 0 <= r < b
FracBits(r, b, k) == [j \in 1 .. k |-> IF 2 * FracRem(r, b, j - 1) >= b THEN 1 ELSE 0]

\* the number of zeros before the first 1 in the digits of r / b, 0 < r < b
RECURSIVE LeadZeros(_, _)
LeadZeros(r, b) == IF 2 * r >= b THEN 0 ELSE 1 + LeadZeros(2 * r, b)

\* float(a) / float(b) for integers a >= 0, b > 0: the nearest double
FloatDivInt(a, b) ==
  IF a = 0 THEN FloatZero
  ELSE LET whole  == BitsOf(a \div b)
           rem    == a % b
           zeros  == IF Len(whole) = 0 /\ rem > 0 THEN LeadZeros(rem, b) ELSE 0
           ndigit == zeros + Precision + 1 - Len(whole)
           digits == whole \o FracBits(rem, b, ndigit)
       IN RoundBits(SubSeq(digits, zeros + 1, Len(digits)), 0 - ndigit,
                    FracRem(rem, b, ndigit) # 0)

\* the carry out of the last k digits of b * n
RECURSIVE MulCarry(_, _, _)
MulCarry(b, n, k) ==
  IF k = 0 THEN 0 ELSE (b[Len(b) - k + 1] * n + MulCarry(b, n, k - 1)) \div 2

\* the digits of b * n
MulBits(b, n) ==
  BitsOf(MulCarry(b, n, Len(b)))
    \o [j \in 1 .. Len(b) |-> (b[j] * n + MulCarry(b, n, Len(b) - j)) % 2]

\* n * f for an integer n >= 0 and a double f: the nearest double
FloatMulInt(n, f) ==
  IF n = 0 \/ Len(f.m) = 0 THEN FloatZero
  ELSE RoundBits(MulBits(f.m, n), f.e, FALSE)

\* int(f): truncation of a double 0 <= f < 2^Precision
FloatTrunc(f) ==
  IF Len(f.m) + f.e <= 0 THEN 0
  ELSE IF f.e >= 0 THEN ValueUpTo(f.m, Len(f.m))
  ELSE ValueUpTo(f.m, Len(f.m) + f.e)

\* math.ceil(f) of a double 0 <= f < 2^Precision
FloatCeil(f) ==
  IF Len(f.m) = 0 \/ f.e >= 0 THEN FloatTrunc(f)
  ELSE IF \E j \in 1 .. Len(f.m) : j > Len(f.m) + f.e /\ f.m[j] = 1
    THEN FloatTrunc(f) + 1
    ELSE FloatTrunc(f)

\* ------------------------------------------------------------ Counter(y)
\* Counter(y)[v]: the number of occurrences of v (0 for a missing key)
Count(y, v) == Cardinality({j \in 1 .. Len(y) : y[j] = v})

\* position of the first occurrence of v in y
FirstSeen(y, v) == CHOOSE j \in 1 .. Len(y) : y[j] = v /\ \A k \in 1 .. j - 1 : y[k] # v

\* place of key v in the iteration of Counter(y): insertion order where dicts
\* keep it, hash-slot order (ascending for the small float labels) elsewhere
KeyRank(y, v, order) == IF order = "insertion" THEN FirstSeen(y, v) ELSE v

\* Counter(y).most_common(1)[0][0]: max(items, key=count) returns the first
\* key of maximal count in iteration order
MostCommonMut(y, order) ==
  CHOOSE v \in Labels : Count(y, v) > 0 /\ \A w \in Labels : Count(y, w) > 0 => w <= v

MostCommon(y, order) ==
  LET keys == {v \in Labels : Count(y, v) > 0}
      top  == {v \in keys : \A w \in keys : Count(y, w) <= Count(y, v)}
  IN CHOOSE v \in top : \A w \in top : KeyRank(y, v, order) <= KeyRank(y, w, order)

\* ------------------------------------------------------------- np.random
\* np.random.seed(seed)
SeedState(seed) == seed % RngMod

\* one step of the generator
NextState(s) == (5 * s + 3) % RngMod

\* the generator state after k steps
RECURSIVE Iterate(_, _)
Iterate(s, k) == IF k = 0 THEN s ELSE Iterate(NextState(s), k - 1)

\* the generator state after k draws; the generator has period RngMod
Advance(s, k) == Iterate(s, k % RngMod)

\* np.random.choice(2, n, p=[p, 1-p]) from state s: the j-th uniform sample u
\* is state/RngMod, and searchsorted(cdf, u, side='right') gives 0 iff u < p
Choice(s, n, p) ==
  [j \in 1 .. n |-> IF Advance(s, j) * p[2] < p[1] * RngMod THEN 0 ELSE 1]

\* ------------------------------------------------- classifiers (pure part)
Raise(e) == [exc |-> e, val |-> None]
Return(v) == [exc |-> NoExc, val |-> Some(v)]

\* MajorityVoteClassifier.fit: the value stored in prediction_
MVFit(y, order) ==
  IF Len(y) = 0 THEN Raise("IndexError") ELSE Return(MostCommon(y, order))

\* MajorityVoteClassifier.predict
MVPredictMut(pred, X) ==
  IF pred = None THEN Return(Repeat(0, Len(X))) ELSE Return(Repeat(pred[1], Len(X)))

MVPredict(pred, X) ==
  IF pred = None THEN Raise("NotInitialized") ELSE Return(Repeat(pred[1], Len(X)))

\* RandomClassifier.fit: the value stored in probabilities_
RCFitMut(y) ==
  LET c0 == Count(y, 0)
      c1 == Count(y, 1)
  IN IF c0 + c1 = 0 THEN Raise("ZeroDivisionError") ELSE Return(Ratio(c1, c0 + c1))

RCFit(y) ==
  LET c0 == Count(y, 0)
      c1 == Count(y, 1)
  IN IF c0 + c1 = 0 THEN Raise("ZeroDivisionError") ELSE Return(Ratio(c0, c0 + c1))

\* the generator state RandomClassifier.predict draws from
PredictRngMut(g, seed) == g

PredictRng(g, seed) == SeedState(seed)

\* RandomClassifier.predict from generator state g: outcome and new state
RCPredict(prob, X, seed, g) ==
  IF prob = None
    THEN [res |-> Raise("NotInitialized"), rng |-> g]
    ELSE [res |-> Return(Choice(PredictRng(g, seed), Len(X), prob[1])),
          rng |-> Advance(PredictRng(g, seed), Len(X))]

\* --------------------------------------------------- classifier operations
NoCall == [op |-> "none", inst |-> "none", y |-> <<>>, n |-> 0, seed |-> None,
           res |-> Raise(NoExc)]

\* the stored state after a predict call
AfterPredictMut(stored, c) == [stored EXCEPT ![c] = None]

AfterPredict(stored, c) == stored

\* the stored state after a fit that computed r
AfterFitMut(stored, c, r) ==
  IF r.exc = NoExc /\ stored[c] = None THEN [stored EXCEPT ![c] = r.val] ELSE stored

AfterFit(stored, c, r) == IF r.exc = NoExc THEN [stored EXCEPT ![c] = r.val] ELSE stored

\* what clf.fit(X, y) computes
FitResult(c, X, y) == IF c \in MVInstances THEN MVFit(y, dictOrder) ELSE RCFit(y)

\* clf.fit(X, y): its effect on the classifier
FitEffect(c, X, y) ==
  LET r == FitResult(c, X, y)
  IN /\ prediction_' = IF c \in MVInstances THEN AfterFit(prediction_, c, r) ELSE prediction_
     /\ probabilities_' = IF c \in RCInstances THEN AfterFit(probabilities_, c, r) ELSE probabilities_
     /\ lastCall' = [op |-> "fit", inst |-> c, y |-> y, n |-> Len(X), seed |-> None,
                     res |-> IF r.exc = NoExc THEN Return(c) ELSE r]
     /\ lastY' = IF r.exc = NoExc THEN [lastY EXCEPT ![c] = Some(y)] ELSE lastY
     /\ fitCalled' = [fitCalled EXCEPT ![c] = TRUE]
     /\ UNCHANGED <<rng, dictOrder, ref, constructed>>

\* what clf.predict(X) or clf.predict(X, seed) computes
PredictResult(c, X, seed) ==
  IF c \in MVInstances
    THEN [res |-> MVPredict(prediction_[c], X), rng |-> rng]
    ELSE RCPredict(probabilities_[c], X, seed, rng)

\* clf.predict: its effect on the classifier and the generator
PredictEffect(c, X, seed) ==
  /\ lastCall' = [op |-> "predict", inst |-> c, y |-> <<>>, n |-> Len(X),
                  seed |-> IF c \in MVInstances THEN None ELSE Some(seed),
                  res |-> PredictResult(c, X, seed).res]
  /\ rng' = PredictResult(c, X, seed).rng
  /\ prediction_' = IF c \in MVInstances THEN AfterPredict(prediction_, c) ELSE prediction_
  /\ probabilities_' = IF c \in RCInstances THEN AfterPredict(probabilities_, c) ELSE probabilities_
  /\ UNCHANGED <<dictOrder, lastY, fitCalled, ref, constructed>>

\* a direct call clf.fit(X, y)
Fit(c, X, y) ==
  /\ c \in constructed
  /\ Len(X) = Len(y)
  /\ FitEffect(c, X, y)
  /\ UNCHANGED evalVars

\* a direct call clf.predict(X) on a MajorityVoteClassifier
PredictMV(c, X) ==
  /\ c \in MVInstances \cap constructed
  /\ PredictEffect(c, X, DefaultSeed)
  /\ UNCHANGED evalVars

\* a direct call clf.predict(X, seed) on a RandomClassifier
PredictRC(c, X, seed) ==
  /\ c \in RCInstances \cap constructed
  /\ PredictEffect(c, X, seed)
  /\ UNCHANGED evalVars

\* the caller keeps the result of the predict call just made
Remember ==
  /\ lastCall.op = "predict"
  /\ lastCall.inst \in RCInstances
  /\ lastCall.res.exc = NoExc
  /\ ref' = Some([inst |-> lastCall.inst, seed |-> lastCall.seed[1],
                  prob |-> probabilities_[lastCall.inst][1],
                  n |-> lastCall.n, out |-> lastCall.res.val[1]])
  /\ ref # ref'
  /\ UNCHANGED <<prediction_, probabilities_, rng, dictOrder, lastCall, lastY, fitCalled,
                 constructed>>
  /\ UNCHANGED evalVars

\* ------------------------------------------------------- float arithmetic
\* the float NaN, and the floats 0 and 1
NaN == <<0, 0>>
Zero == <<0, 1>>

\* a + b
FracAdd(a, b) ==
  IF a = NaN \/ b = NaN THEN NaN ELSE Ratio(a[1] * b[2] + b[1] * a[2], a[2] * b[2])

\* 1 - a
OneMinus(a) == IF a = NaN THEN NaN ELSE Ratio(a[2] - a[1], a[2])

\* a / n for an integer n > 0
FracDivInt(a, n) == IF a = NaN THEN NaN ELSE Ratio(a[1], a[2] * n)

\* metrics.accuracy_score(y_true, y_pred, normalize=True): the mean of the
\* element-wise equality, NaN for no elements
AccuracyScore(y_true, y_pred) ==
  IF Len(y_true) = 0 THEN NaN
  ELSE Ratio(Cardinality({j \in 1 .. Len(y_true) : y_true[j] = y_pred[j]}), Len(y_true))

\* ------------------------------------------------------ train_test_split
\* test sizes and partial amounts, in tenths
TestSizes == {1, 2, 5}
PartialAmts == {1, 5, 7, 10}
DataSizes == (1 .. MaxLen) \cup {LargeRows}

\* the float test_size: the literal 0.t
TestFraction(t) == FloatDivInt(t, 10)

\* n_test = ceil(test_size * n), for every dataset size and test size
NTest == [n \in DataSizes |-> [t \in TestSizes |-> FloatCeil(FloatMulInt(n, TestFraction(t)))]]

\* the permutation RandomState(random_state).permutation(n) draws: rows are
\* taken with a stride and a shift that the seeded generator fixes
Permutation(n, random_state) ==
  LET shift  == NextState(SeedState(random_state)) % n
      cand   == 1 + (random_state % n)
      stride == IF Gcd(cand, n) = 1 THEN cand ELSE 1
  IN [j \in 1 .. n |-> ((stride * (j - 1) + shift) % n) + 1]

\* train_test_split(X, y, test_size=test_size, random_state=random_state):
\* the first n_test rows of the permutation are the test partition, the rest
\* the training partition
TrainTestSplit(X, y, test_size, random_state) ==
  LET n       == Len(X)
      n_test  == NTest[n][test_size]
      n_train == n - n_test
      perm    == Permutation(n, random_state)
  IN [X_train |-> [j \in 1 .. n_train |-> X[perm[n_test + j]]],
      X_test  |-> [j \in 1 .. n_test |-> X[perm[j]]],
      y_train |-> [j \in 1 .. n_train |-> y[perm[n_test + j]]],
      y_test  |-> [j \in 1 .. n_test |-> y[perm[j]]]]

\* ------------------------------------------------- error and error_partial
Evaluators == {"error", "error_partial"}

\* partial_amt = partial_amt/10.0
PartialFractionMut(partial_amt) == FloatDivInt(partial_amt, 100)

PartialFraction(partial_amt) == FloatDivInt(partial_amt, 10)

TrainSizes == {n - NTest[n][t] : n \in DataSizes, t \in TestSizes}

\* int(len(X_train)*partial_amt), for every partition size and partial amount
TruncIndex ==
  [n \in TrainSizes |->
    [p \in PartialAmts |-> FloatTrunc(FloatMulInt(n, PartialFraction(p)))]]

\* the value of random_state in trial i
SplitSeedMut(i) == 0

SplitSeed(i) == i

Idle == [pc |-> "idle", fn |-> "none", i |-> 0,
         X_train |-> <<>>, X_test |-> <<>>, y_train |-> <<>>, y_test |-> <<>>,
         y_train_pred |-> <<>>, y_test_pred |-> <<>>,
         train_error |-> Zero, test_error |-> Zero]

\* the call ends: what it returned or raised, and the classifier it leaves
EndCall(res) ==
  /\ ret' = [ret EXCEPT ![ev.fn] = Some([res |-> res,
                                          clf |-> IF args.clf \in MVInstances
                                                    THEN prediction_'[args.clf]
                                                    ELSE probabilities_'[args.clf]])]
  /\ ev' = Idle

\* error(clf, X, y, ntrials, test_size) is called: train_error = test_error = 0
CallError ==
  /\ ev.pc = "idle"
  /\ ret["error"] = None
  /\ ev' = [Idle EXCEPT !.pc = "loop", !.fn = "error"]
  /\ UNCHANGED <<prediction_, probabilities_, rng, dictOrder, lastCall, lastY, fitCalled,
                 ref, constructed, data, args, ret>>

\* error_partial(clf, X, y, ntrials, test_size, partial_amt) is called
CallErrorPartial ==
  /\ ev.pc = "idle"
  /\ ret["error_partial"] = None
  /\ ev' = [Idle EXCEPT !.pc = "loop", !.fn = "error_partial"]
  /\ UNCHANGED <<prediction_, probabilities_, rng, dictOrder, lastCall, lastY, fitCalled,
                 ref, constructed, data, args, ret>>

\* for i in range(0, ntrials): the split of trial i, truncated in error_partial
TrialSplit ==
  /\ ev.pc = "loop"
  /\ ev.i < args.ntrials
  /\ LET sp == TrainTestSplit(data.X, data.y, args.test_size, SplitSeed(ev.i))
         k  == IF ev.fn = "error_partial"
                 THEN TruncIndex[Len(sp.X_train)][args.partial_amt]
                 ELSE Len(sp.X_train)
     IN ev' = [ev EXCEPT !.pc = "fit",
                         !.X_train = Prefix(sp.X_train, k),
                         !.y_train = Prefix(sp.y_train, k),
                         !.X_test = sp.X_test,
                         !.y_test = sp.y_test]
  /\ UNCHANGED <<prediction_, probabilities_, rng, dictOrder, lastCall, lastY, fitCalled,
                 ref, constructed, data, args, ret>>

\* clf.fit(X_train, y_train); an exception ends the call
TrialFit ==
  /\ ev.pc = "fit"
  /\ FitEffect(args.clf, ev.X_train, ev.y_train)
  /\ IF lastCall'.res.exc = NoExc
       THEN ev' = [ev EXCEPT !.pc = "predict_train"] /\ ret' = ret
       ELSE EndCall(lastCall'.res)
  /\ UNCHANGED <<data, args>>

\* y_train_pred = clf.predict(X_train)
TrialPredictTrain ==
  /\ ev.pc = "predict_train"
  /\ PredictEffect(args.clf, ev.X_train, DefaultSeed)
  /\ IF lastCall'.res.exc = NoExc
       THEN ev' = [ev EXCEPT !.pc = "predict_test", !.y_train_pred = lastCall'.res.val[1]]
            /\ ret' = ret
       ELSE EndCall(lastCall'.res)
  /\ UNCHANGED <<data, args>>

\* y_test_pred = clf.predict(X_test)
TrialPredictTest ==
  /\ ev.pc = "predict_test"
  /\ PredictEffect(args.clf, ev.X_test, DefaultSeed)
  /\ IF lastCall'.res.exc = NoExc
       THEN ev' = [ev EXCEPT !.pc = "score", !.y_test_pred = lastCall'.res.val[1]]
            /\ ret' = ret
       ELSE EndCall(lastCall'.res)
  /\ UNCHANGED <<data, args>>

\* train_error += 1 - accuracy_score(...); test_error += 1 - accuracy_score(...)
TrialScore ==
  /\ ev.pc = "score"
  /\ ev' = [ev EXCEPT
              !.pc = "loop",
              !.i = ev.i + 1,
              !.train_error =
                 FracAdd(ev.train_error, OneMinus(AccuracyScore(ev.y_train, ev.y_train_pred))),
              !.test_error =
                 FracAdd(ev.test_error, OneMinus(AccuracyScore(ev.y_test, ev.y_test_pred)))]
  /\ UNCHANGED <<prediction_, probabilities_, rng, dictOrder, lastCall, lastY, fitCalled,
                 ref, constructed, data, args, ret>>

\* after the loop: train_error/ntrials, test_error/ntrials, return
LoopExit ==
  /\ ev.pc = "loop"
  /\ ev.i >= args.ntrials
  /\ UNCHANGED <<prediction_, probabilities_, rng, dictOrder, lastCall, lastY, fitCalled,
                 ref, constructed, data, args>>
  /\ EndCall(IF args.ntrials = 0
               THEN Raise("ZeroDivisionError")
               ELSE Return(<<FracDivInt(ev.train_error, args.ntrials),
                             FracDivInt(ev.test_error, args.ntrials)>>))

\* ------------------------------------------------------------------ inputs
LabelVectors == SeqsUpTo(Labels, MaxLen)
\* label vectors giving a probability strictly between 0 and 1
DetLabelVectors == {<<0, 1>>, <<0, 1, 1>>}
\* feature matrices of n rows (one column)
Matrices(n) == {Repeat(f, n) : f \in FeatureValues}
PredictInputs == UNION {Matrices(n) : n \in 0 .. MaxRows}

InitClassifiers ==
  /\ prediction_ = [c \in MVInstances |-> None]
  /\ probabilities_ = [c \in RCInstances |-> None]
  /\ lastCall = NoCall
  /\ lastY = [c \in Instances |-> None]
  /\ fitCalled = [c \in Instances |-> FALSE]
  /\ ref = None

\* no evaluator call is made
InitNoEval ==
  /\ data = [X |-> <<>>, y |-> <<>>]
  /\ args = [clf |-> "none", ntrials |-> 0, test_size |-> 0, partial_amt |-> 0]
  /\ ev = Idle
  /\ ret = [fn \in Evaluators |-> None]

\* ---------------- specification: one baseline classifier, fitted and used
Init ==
  /\ InitClassifiers
  /\ InitNoEval
  /\ \/ constructed = {"mv"} /\ rng = 0 /\ dictOrder \in {"insertion", "hash"}
     \/ constructed = {"rc1"} /\ rng \in 0 .. RngMod - 1 /\ dictOrder = "insertion"

Next ==
  \/ \E c \in Instances, y \in LabelVectors : \E X \in Matrices(Len(y)) : Fit(c, X, y)
  \/ \E c \in Instances, X \in PredictInputs : PredictMV(c, X)
  \/ \E c \in Instances, X \in PredictInputs, seed \in Seeds : PredictRC(c, X, seed)

Spec == Init /\ [][Next]_vars

\* ------------- specification: two RandomClassifiers and a remembered call
InitDet ==
  /\ InitClassifiers
  /\ InitNoEval
  /\ constructed = RCInstances
  /\ rng \in 0 .. RngMod - 1
  /\ dictOrder = "insertion"

NextDet ==
  \/ \E c \in Instances, y \in DetLabelVectors : \E X \in Matrices(Len(y)) : Fit(c, X, y)
  \/ \E c \in Instances, X \in PredictInputs, seed \in Seeds : PredictRC(c, X, seed)
  \/ Remember

SpecDet == InitDet /\ [][NextDet]_vars

\* ----------------------- specification: the evaluators on one dataset
\* the large dataset: two labels 0 for each label 1
LargeDataset == [X |-> [j \in 1 .. LargeRows |-> j],
                 y |-> [j \in 1 .. LargeRows |-> IF j % 3 = 0 THEN 1 ELSE 0]]

SmallDatasets ==
  UNION {{[X |-> [j \in 1 .. n |-> j], y |-> y] : y \in [1 .. n -> {0, 1}]} : n \in 1 .. MaxLen}

InitEval ==
  /\ InitClassifiers
  /\ data \in SmallDatasets \cup {LargeDataset}
  /\ args \in [clf : {"mv", "rc1"}, ntrials : 0 .. MaxTrials, test_size : TestSizes,
               partial_amt : PartialAmts]
  /\ constructed = {args.clf}
  /\ rng = 0
  /\ dictOrder \in IF args.clf = "mv" THEN {"insertion", "hash"} ELSE {"insertion"}
  /\ ev = Idle
  /\ ret = [fn \in Evaluators |-> None]

NextEval ==
  \/ CallError
  \/ CallErrorPartial
  \/ TrialSplit
  \/ TrialFit
  \/ TrialPredictTrain
  \/ TrialPredictTest
  \/ TrialScore
  \/ LoopExit

SpecEval == InitEval /\ [][NextEval]_vars

\* ------------------------------------------------------------------ claims
stored(c) == IF c \in MVInstances THEN prediction_[c] ELSE probabilities_[c]

returned(call) == call.res.exc = NoExc

HasUniqueMode(y) ==
  \E v \in Labels : \A w \in Labels \ {v} : Count(y, w) < Count(y, v)

UniqueMode(y) ==
  CHOOSE v \in Labels : \A w \in Labels \ {v} : Count(y, w) < Count(y, v)

\* C1: after MajorityVoteClassifier.fit(X, y) with a unique most-common label v
\* in y, predict(X') returns n' copies of v, n' the row count of X', whatever
\* the feature values are.
C1_MajorityPredictsMode ==
  \A c \in MVInstances :
    (/\ lastCall.op = "predict"
     /\ lastCall.inst = c
     /\ lastY[c] # None
     /\ HasUniqueMode(lastY[c][1]))
    => lastCall.res = Return(Repeat(UniqueMode(lastY[c][1]), lastCall.n))

C1_Witness ==
  /\ lastCall.op = "predict"
  /\ lastCall.inst = "mv"
  /\ lastCall.n = 2
  /\ lastY["mv"] = Some(<<1, 0, 1>>)
  /\ lastCall.res = Return(<<1, 1>>)

\* C2: predict on an instance of either class on which fit was never called
\* raises the not-initialized exception, returns nothing and leaves the stored
\* state unset.
C2_PredictBeforeFitFails ==
  \A c \in Instances :
    (lastCall.op = "predict" /\ lastCall.inst = c /\ ~fitCalled[c])
    => /\ lastCall.res = Raise("NotInitialized")
       /\ stored(c) = None

C2_Witness ==
  /\ lastCall.op = "predict"
  /\ lastCall.inst = "rc1"
  /\ lastCall.n = 2
  /\ ~fitCalled["rc1"]
  /\ lastCall.res.exc = "NotInitialized"
  /\ probabilities_["rc1"] = None

\* the split of trial i as the caller of the evaluators describes it
SplitOf(i) == TrainTestSplit(data.X, data.y, args.test_size, i)

\* the labels a fresh classifier of the evaluated class predicts for n rows
\* after a fit on y_train
FreshPredictions(y_train, n) ==
  IF args.clf \in MVInstances
    THEN Repeat(MVFit(y_train, dictOrder).val[1], n)
    ELSE Choice(SeedState(DefaultSeed), n, RCFit(y_train).val[1])

\* 1 minus the fraction of predictions equal to the true label
MismatchFraction(y_true, y_pred) ==
  Ratio(Cardinality({j \in 1 .. Len(y_true) : y_true[j] # y_pred[j]}), Len(y_true))

TrialErrors(y_train, y_test) ==
  <<MismatchFraction(y_train, FreshPredictions(y_train, Len(y_train))),
    MismatchFraction(y_test, FreshPredictions(y_train, Len(y_test)))>>

RECURSIVE SumOfErrors(_)
SumOfErrors(k) ==
  IF k = 0 THEN <<Zero, Zero>>
  ELSE LET e == TrialErrors(SplitOf(k - 1).y_train, SplitOf(k - 1).y_test)
           t == SumOfErrors(k - 1)
       IN <<FracAdd(t[1], e[1]), FracAdd(t[2], e[2])>>

MeanOfErrors ==
  <<FracDivInt(SumOfErrors(args.ntrials)[1], args.ntrials),
    FracDivInt(SumOfErrors(args.ntrials)[2], args.ntrials)>>

NoEmptyTrain == \A i \in 0 .. args.ntrials - 1 : Len(SplitOf(i).y_train) > 0

\* C3: error with ntrials >= 1 returns the means, over the trials
\* 0 .. ntrials-1, of the train and test error of each trial; trial i uses the
\* split with random_state = i, the classifier is fitted on the training
\* partition of that split before either predict, and an error is 1 minus the
\* fraction of predictions that equal the true label. (Every training
\* partition has a row.)
C3_ErrorIsMeanOverSeededTrials ==
  /\ (ret["error"] # None /\ args.ntrials >= 1 /\ NoEmptyTrain)
     => ret["error"][1].res = Return(MeanOfErrors)
  /\ (ev.fn = "error" /\ ev.pc = "predict_train")
     => /\ lastCall.op = "fit"
        /\ lastCall.y = SplitOf(ev.i).y_train
        /\ ev.y_test = SplitOf(ev.i).y_test
  /\ (ev.fn = "error" /\ ev.pc \in {"predict_test", "score"})
     => lastY[args.clf] = Some(SplitOf(ev.i).y_train)

C3_Witness ==
  /\ ret["error"] # None
  /\ args.ntrials = 2
  /\ args.clf = "rc1"
  /\ Len(data.X) = LargeRows
  /\ ret["error"][1].res.exc = NoExc
  /\ ret["error"][1].res.val[1][1] # Zero
  /\ ret["error"][1].res.val[1][2] # ret["error"][1].res.val[1][1]

\* C4: with partial_amt = 10, error_partial returns what error returns for the
\* same classifier, dataset, ntrials and test_size, and leaves the classifier
\* in the same state.
C4_FullPartialEqualsError ==
  (args.partial_amt = 10 /\ ret["error"] # None /\ ret["error_partial"] # None)
  => ret["error_partial"] = ret["error"]

C4_Witness ==
  /\ args.partial_amt = 10
  /\ ret["error"] # None
  /\ ret["error_partial"] # None
  /\ Len(data.X) = LargeRows
  /\ args.ntrials = 2
  /\ ret["error_partial"][1].res.exc = NoExc
  /\ ret["error_partial"][1].res.val[1][2] # Zero
  /\ ret["error_partial"][1].clf # None

C6_PredictDeterministic ==
  (/\ ref # None
   /\ lastCall.op = "predict"
   /\ lastCall.inst \in RCInstances
   /\ returned(lastCall)
   /\ lastCall.seed = Some(ref[1].seed)
   /\ probabilities_[lastCall.inst] = Some(ref[1].prob)
   /\ lastCall.n = ref[1].n)
  => /\ lastCall.res.val[1] = ref[1].out
     /\ Len(lastCall.res.val[1]) = lastCall.n
     /\ \A j \in 1 .. lastCall.n : lastCall.res.val[1][j] \in {0, 1}

C6_Witness ==
  /\ ref # None
  /\ ref[1].inst = "rc1"
  /\ ref[1].n = 2
  /\ ref[1].out[1] # ref[1].out[2]
  /\ lastCall.op = "predict"
  /\ lastCall.inst = "rc2"
  /\ lastCall.n = 2
  /\ lastCall.seed = Some(ref[1].seed)
  /\ probabilities_["rc2"] = Some(ref[1].prob)
  /\ probabilities_["rc1"] # probabilities_["rc2"]
  /\ lastCall.res.val[1] = ref[1].out

\* C7 (as claimed): in every trial error_partial fits on the first
\* floor(len(X_train) * partial_amt / 10) rows of the training partition, the
\* same prefix of X_train and y_train, scores the train error on that prefix
\* and the test error on the whole test partition.
C7_TruncationIsFloorOfTenths ==
  (ev.fn = "error_partial" /\ ev.pc \in {"fit", "predict_train", "predict_test", "score"})
  => LET sp == SplitOf(ev.i)
         k  == (Len(sp.X_train) * args.partial_amt) \div 10
     IN /\ ev.X_train = Prefix(sp.X_train, k)
        /\ ev.y_train = Prefix(sp.y_train, k)
        /\ ev.X_test = sp.X_test
        /\ ev.y_test = sp.y_test

\* a trial of the call that fn names was given an empty partition
EmptyPartition(fn) ==
  /\ args.ntrials >= 1
  /\ LET sp == SplitOf(0)
         k  == IF fn = "error_partial"
                 THEN (Len(sp.X_train) * args.partial_amt) \div 10
                 ELSE Len(sp.X_train)
     IN k = 0 \/ Len(sp.X_test) = 0

\* C8 (as claimed): a call of error or error_partial in which a trial is left
\* with an empty training or test partition fails with an input-validation
\* error.
C8_EmptyPartitionRejected ==
  \A fn \in Evaluators :
    (ret[fn] # None /\ EmptyPartition(fn)) => ret[fn][1].res.exc = "ValueError"

\* C9 (as claimed): RandomClassifier.fit on labels whose distinct values are
\* not exactly {0, 1} is rejected with an input-validation error.
C9_DegenerateLabelsRejected ==
  \A c \in RCInstances :
    (/\ lastCall.op = "fit"
     /\ lastCall.inst = c
     /\ {lastCall.y[j] : j \in 1 .. Len(lastCall.y)} # {0, 1})
    => lastCall.res.exc = "ValueError"

\* C10: the stored state of a classifier is unset while fit was never called,
\* and otherwise is what a fresh instance computes from the labels of the most
\* recent fit that returned: predict does not change it and no earlier fit
\* leaves a trace.
C10_StoredStateIsLastFit ==
  \A c \in constructed :
    /\ ~fitCalled[c] => stored(c) = None
    /\ lastY[c] = None => stored(c) = None
    /\ lastY[c] # None =>
         stored(c) = (IF c \in MVInstances THEN MVFit(lastY[c][1], dictOrder)
                                           ELSE RCFit(lastY[c][1])).val

C10_Witness ==
  /\ lastCall.op = "predict"
  /\ lastCall.inst = "rc1"
  /\ returned(lastCall)
  /\ lastCall.n = 2
  /\ lastY["rc1"] = Some(<<1, 0, 1>>)
  /\ probabilities_["rc1"] = Some(<<1, 3>>)

====
